---- MODULE Spec2Model ----
(***************************************************************************)
(* TimeTracker (src/main.rs): a GUI controller (ProcessApp) that spawns    *)
(* one tokio task (process_watcher_async) per selected pid.  The task      *)
(* samples the process every REFRESH_INTERVAL, accumulates the time it was *)
(* seen running and writes the formatted total into a string shared with   *)
(* the GUI.                                                                *)
(*                                                                         *)
(* Time is counted in milliseconds.  The click handlers of the controller  *)
(* run on the single GUI thread, one whole handler at a time.  The watcher *)
(* tasks run on the worker threads of the runtime and interleave with the  *)
(* GUI thread and with each other.  A tick body is cut where the order of  *)
(* its accesses to shared state can matter: after the read of the token    *)
(* and of the paused flag (WatcherTick), after the probe and the clock     *)
(* read (WatcherSample), and at the write of the text (WatcherPublish).    *)
(* The steps merged into one action only touch task-local state between    *)
(* two shared accesses that commute with every other thread's steps.       *)
(*                                                                         *)
(* Not modelled: egui rendering, the window title and process name, the    *)
(* picker window with its list and name filter (a stale list can hold any *)
(* pid, so a click on any pid is possible at any time), the process table *)
(* (a probe can find any status), and ctx.request_repaint (it only wakes   *)
(* the GUI).                                                               *)
(***************************************************************************)
EXTENDS Integers, Sequences, FiniteSets, TLC

\* ---------------------------------------------------------------- bounds
\* Number of times the clock changes (by TimeStep ms) in one behaviour.
MaxSteps == 2

\* ------------------------------------------------------ program constants
\* const REFRESH_INTERVAL: Duration = Duration::from_millis(200)
REFRESH_INTERVAL == 200
\* Duration::as_secs: whole seconds of a Duration held in milliseconds.
MillisPerSec == 1000

TimeStep == REFRESH_INTERVAL

\* The process identifiers of the machine.
Pids == {1, 2}
\* The watcher tasks of a behaviour, named by the number of their session
\* (and of their token): a first session, and the session that a switch or
\* a restart begins while the task of the first may still be running.
Watchers == {1, 2}
MaxWatchers == Cardinality(Watchers)
\* Option<Pid> / Option<CancellationToken>: 0 is None.
None == 0

\* sysinfo::ProcessStatus as the watcher distinguishes it: Run, or any other
\* status of a live process (Sleep stands for them); Absent: no such process.
ProcessStatus == {"Run", "Sleep"}
Absent == "Absent"

VARIABLES
    clock,               \* Instant::now(), ms since the program started
    steps,               \* number of clock changes so far
    duration_text,       \* ProcessApp.duration_text (Arc<RwLock<String>>)
    paused,              \* ProcessApp.paused (Arc<AtomicBool>)
    cancellation_token,  \* ProcessApp.cancellation_token: a token id or None
    cancelled,           \* the tokens on which cancel() has been called
    tracked_process,     \* ProcessApp.tracked_process: a pid or None
    watcher,             \* the spawned process_watcher_async tasks
    spawned,             \* number of tasks spawned so far
    main_pc,             \* where main() is
    rt_pc,               \* where the runtime thread of main() is
    exit_process_token,  \* main's exit_process_token is cancelled
    text_writer,         \* history: the task that wrote duration_text last
    paused_until,        \* history: end of the last time span spent paused
    last_cmd             \* history: the last GUI command, see Cmd

vars == <<clock, steps, duration_text, paused, cancellation_token, cancelled,
          tracked_process, watcher, spawned, main_pc,
          rt_pc, exit_process_token, text_writer, paused_until, last_cmd>>

gui == <<duration_text, paused, cancellation_token, tracked_process>>
env == <<clock, steps, paused_until>>
shutdown == <<main_pc, rt_pc, exit_process_token>>

\* The last GUI command, as far as the properties below tell commands apart:
\* "resume" (an Un-Pause click, with its instant), "select" (a click that
\* began a session), "select_paused" (the same, with the paused flag set
\* when it was clicked), "select_same" (a click on the pid that is tracked
\* already), "select_ended" (the same, when the sampler of that pid had
\* found its process gone), "stop_idle" (Stop with nothing tracked), "other".
Cmd(op) == [op |-> op, at |-> 0]

\* ---------------------------------------------------------- pure helpers
\* Instant::saturating_duration_since: zero when `earlier` is later.
WrappingDurationSince(now, earlier) == now - earlier
SaturatingDurationSince(now, earlier) ==
    IF now >= earlier THEN now - earlier ELSE 0

\* Duration::as_secs
AsSecs(d) == d \div MillisPerSec

\* "{:02}": at least two digits, zero padded.
Pad2(n) == IF n < 10 THEN "0" \o ToString(n) ELSE ToString(n)

\* write!(&mut duration_txt, "{:02}:{:02}:{:02}", hours, minutes, seconds)
FormatDuration(total_secs) ==
    LET hours   == total_secs \div 3600
        minutes == (total_secs % 3600) \div 60
        seconds == total_secs % 60
    IN  Pad2(hours) \o ":" \o Pad2(minutes) \o ":" \o Pad2(seconds)

\* String::from("--:--:--")
Placeholder == "--:--:--"

\* A task slot that has not been spawned yet.  Two fields are history:
\* process_gone records that system.process(pid) of the task returned None;
\* paused_tick holds the instant of the task's last tick that read the
\* paused flag as set, from that tick until the task accumulates again or
\* another pause begins (empty otherwise).
NoWatcher ==
    [pid |-> None, pc |-> "none", last_update |-> 0, process_duration |-> 0,
     last_seconds |-> 0, deadline |-> 0, process_gone |-> FALSE,
     paused_tick |-> {}]

\* A task that has returned or was dropped: its locals are gone.
Terminated == [NoWatcher EXCEPT !.pc = "done"]

\* A task is live from tokio::spawn until it returns or is dropped.
Live(s) == watcher[s].pc \notin {"none", "done"}
LiveWatchers == {s \in Watchers : Live(s)}

Init ==
    /\ clock = 0
    /\ steps = 0
    /\ duration_text = Placeholder
    /\ paused = FALSE
    /\ cancellation_token = None
    /\ cancelled = {}
    /\ tracked_process = None
    /\ watcher = [s \in Watchers |-> NoWatcher]
    /\ spawned = 0
    /\ main_pc = "run_native"
    /\ rt_pc = "block_on"
    /\ exit_process_token = FALSE
    /\ text_writer = None
    /\ paused_until = 0
    /\ last_cmd = Cmd("other")

\* ----------------------------------------------------------- environment
\* Wall-clock time passes: one refresh interval.
Advance ==
    /\ steps < MaxSteps
    /\ steps' = steps + 1
    /\ clock' = clock + TimeStep
    /\ paused_until' = IF paused THEN clock + TimeStep ELSE paused_until
    /\ UNCHANGED <<gui, cancelled, watcher, spawned, shutdown, text_writer,
                   last_cmd>>

\* ------------------------------------------------- ProcessApp (GUI thread)
GuiRunning == main_pc = "run_native"

\* token.cancel() on an Option<CancellationToken>
CancelForgotten(token) == cancelled
CancelUnwrapped(token) == cancelled \cup {token}
Cancel(token) == IF token = None THEN cancelled ELSE cancelled \cup {token}

\* if self.tracked_process != Some(pid)
ReselectAlsoRestarts(pid) == TRUE
ReselectRestartsEnded(pid) ==
    \/ tracked_process # pid
    \/ cancellation_token # None /\ watcher[cancellation_token].process_gone
IsNewSelection(pid) == tracked_process # pid

\* self.paused.store(false, Ordering::Release) of a new selection
PausedLeftAsItWas == paused
PausedAtSpawn == FALSE

\* tokio::spawn(process_watcher_async(pid, paused, duration, token, ctx)):
\* the task table with the task of token `tok` added, not yet polled.
SpawnWatcher(tok, pid) ==
    [watcher EXCEPT ![tok] = [NoWatcher EXCEPT !.pid = pid, !.pc = "spawned"]]

\* open_process_list_window(): a row of the picker is clicked.
ClickProcess(pid) ==
    /\ GuiRunning
    /\ IF IsNewSelection(pid)
       THEN /\ spawned < MaxWatchers
            /\ cancelled' = Cancel(cancellation_token)
            /\ paused' = PausedAtSpawn
            /\ tracked_process' = pid
            /\ spawned' = spawned + 1
            /\ cancellation_token' = spawned + 1
            /\ watcher' = SpawnWatcher(spawned + 1, pid)
            /\ last_cmd' = IF paused THEN Cmd("select_paused")
                           ELSE Cmd("select")
            /\ UNCHANGED duration_text
       ELSE /\ last_cmd' = IF watcher[cancellation_token].process_gone
                           THEN Cmd("select_ended")
                           ELSE Cmd("select_same")
            /\ UNCHANGED <<gui, cancelled, watcher,
                           spawned>>
    /\ UNCHANGED <<env, shutdown, text_writer>>

\* update(): the "Pause" / "Un-Pause" button.
ClickPause ==
    /\ GuiRunning
    /\ paused' = ~paused
    /\ last_cmd' = IF paused THEN [op |-> "resume", at |-> clock]
                   ELSE Cmd("other")
    /\ watcher' = IF paused THEN watcher
                  ELSE [s \in Watchers |->
                           [watcher[s] EXCEPT !.paused_tick = {}]]
    /\ UNCHANGED <<env, duration_text, cancellation_token, tracked_process,
                   cancelled, spawned, shutdown, text_writer>>

\* update(): the "Stop" button, with stop_and_join_thread().
ClickStop ==
    /\ GuiRunning
    /\ tracked_process' = None
    /\ cancelled' = Cancel(cancellation_token)
    /\ cancellation_token' = None
    /\ last_cmd' = IF cancellation_token = None /\ tracked_process = None
                   THEN Cmd("stop_idle") ELSE Cmd("other")
    /\ UNCHANGED <<env, duration_text, paused, watcher,
                   spawned, shutdown, text_writer>>

\* ------------------------------------- process_watcher_async (one task s)
\* First poll of the task: the locals of lines 28-33.  interval() completes
\* its first tick at once, so the first deadline is the creation instant.
WatcherStart(s) ==
    /\ watcher[s].pc = "spawned"
    /\ watcher' = [watcher EXCEPT ![s].pc = "select",
                                  ![s].last_update = clock,
                                  ![s].last_seconds = 0,
                                  ![s].process_duration = 0,
                                  ![s].deadline = clock]
    /\ UNCHANGED <<env, gui, cancelled, spawned,
                   shutdown, text_writer, last_cmd>>

\* select! { biased; _ = cancellation_token.cancelled() => return, ... }
WatcherCancelled(s) ==
    /\ watcher[s].pc = "select"
    /\ s \in cancelled
    /\ watcher' = [watcher EXCEPT ![s] = Terminated]
    /\ UNCHANGED <<env, gui, cancelled, spawned,
                   shutdown, text_writer, last_cmd>>

\* select! { ..., _ = update_interval.tick() => ... }: polled only when the
\* token is not cancelled, ready once the deadline has passed.
UnbiasedTickReady(s) == clock >= watcher[s].deadline
TickReady(s) == s \notin cancelled /\ clock >= watcher[s].deadline

\* paused.load(Ordering::Relaxed)
PausedNeverRead == FALSE
PausedLoad == paused

\* The tick branch is taken (the interval moves its deadline one period on,
\* also when the tick is late) and the paused flag is read:
\* if !paused.load(Relaxed) { ... } else { last_update = Instant::now(); }
WatcherTick(s) ==
    /\ watcher[s].pc = "select"
    /\ TickReady(s)
    /\ watcher' = IF PausedLoad
                  THEN [watcher EXCEPT ![s].deadline = @ + REFRESH_INTERVAL,
                                       ![s].last_update = clock,
                                       ![s].paused_tick = {clock}]
                  ELSE [watcher EXCEPT ![s].deadline = @ + REFRESH_INTERVAL,
                                       ![s].pc = "probe"]
    /\ UNCHANGED <<env, gui, cancelled, spawned,
                   shutdown, text_writer, last_cmd>>

\* process_duration += now.saturating_duration_since(last_update);
\* last_update = now;  -- on the locals of task s, in the task table w.
SharedAccumulator(w, s, now) ==
    [w EXCEPT ![spawned].process_duration =
                  @ + SaturatingDurationSince(now, w[s].last_update),
              ![spawned].last_update = now]
Accumulate(w, s, now) ==
    [w EXCEPT ![s].process_duration =
                  @ + SaturatingDurationSince(now, w[s].last_update),
              ![s].last_update = now]

\* if let Some(process) = system.process(pid) { ... } else { return; }
\* -- the else branch, on task s of the task table w.
ProcessGoneRetries(w, s) ==
    [w EXCEPT ![s].pc = "select", ![s].process_gone = TRUE]
ProcessGone(w, s) ==
    [w EXCEPT ![s] = [Terminated EXCEPT !.process_gone = TRUE]]

\* system.refresh_processes(Some(&[pid])); system.process(pid); status();
\* when the process runs: let now = Instant::now(); and the accumulation.
WatcherSample(s) ==
    /\ watcher[s].pc = "probe"
    /\ \E status \in ProcessStatus \cup {Absent} :
           watcher' =
              IF status = Absent THEN ProcessGone(watcher, s)
              ELSE IF status = "Run"
                   THEN [Accumulate(watcher, s, clock) EXCEPT
                             ![s].pc = "publish", ![s].paused_tick = {}]
                   ELSE [watcher EXCEPT ![s].pc = "select"]
    /\ UNCHANGED <<env, gui, cancelled, spawned,
                   shutdown, text_writer, last_cmd>>

\* total_secs, duration_text.write(), last_seconds = total_secs
WatcherPublish(s) ==
    /\ watcher[s].pc = "publish"
    /\ LET total_secs == AsSecs(watcher[s].process_duration)
       IN  /\ duration_text' = FormatDuration(total_secs)
           /\ watcher' = [watcher EXCEPT ![s].pc = "select",
                                         ![s].last_seconds = total_secs]
    /\ text_writer' = s
    /\ UNCHANGED <<env, paused, cancellation_token, tracked_process, cancelled,
                   spawned, shutdown,
                   last_cmd>>

\* ------------------------------------------------------- Drop and main()
\* The window is closed: run_native drops the app (Drop for ProcessApp
\* cancels the token it holds, without taking it) and returns to main, which
\* cancels exit_process_token and goes on to join the runtime thread.
AppDrop ==
    /\ main_pc = "run_native"
    /\ cancelled' = Cancel(cancellation_token)
    /\ exit_process_token' = TRUE
    /\ main_pc' = "join"
    /\ UNCHANGED <<env, gui, watcher, spawned, rt_pc, text_writer, last_cmd>>

\* rt.block_on(exit_process_clone.cancelled()) returns in the runtime thread;
\* the closure then drops the Runtime it owns.
RtBlockOnReturns ==
    /\ rt_pc = "block_on"
    /\ exit_process_token
    /\ rt_pc' = "drop_runtime"
    /\ UNCHANGED <<env, gui, cancelled, watcher, spawned,
                   main_pc, exit_process_token, text_writer,
                   last_cmd>>

\* Runtime::drop: a task that is at an await point (or was never polled) is
\* dropped there; a task inside a tick body runs on to its next await.
RuntimeDropTask(s) ==
    /\ rt_pc = "drop_runtime"
    /\ watcher[s].pc \in {"spawned", "select"}
    /\ watcher' = [watcher EXCEPT ![s] = Terminated]
    /\ UNCHANGED <<env, gui, cancelled, spawned,
                   shutdown, text_writer, last_cmd>>

\* Runtime::drop returns once every task has stopped; the thread then ends.
RuntimeDropDone ==
    /\ rt_pc = "drop_runtime"
    /\ LiveWatchers = {}
    /\ rt_pc' = "exited"
    /\ UNCHANGED <<env, gui, cancelled, watcher, spawned,
                   main_pc, exit_process_token, text_writer,
                   last_cmd>>

\* rt_thread.join().unwrap()
DetachedRtThread == TRUE
RtThreadJoined == rt_pc = "exited"

MainJoin ==
    /\ main_pc = "join"
    /\ RtThreadJoined
    /\ main_pc' = "returned"
    /\ UNCHANGED <<env, gui, cancelled, watcher, spawned,
                   rt_pc, exit_process_token, text_writer,
                   last_cmd>>

\* The clock steps back: Instant::now() returns an earlier instant than it
\* did before (the platform bug saturating_duration_since guards against).
ClockRegress ==
    /\ steps < MaxSteps
    /\ clock >= TimeStep
    /\ steps' = steps + 1
    /\ clock' = clock - TimeStep
    /\ UNCHANGED <<paused_until, gui, cancelled, watcher, spawned,
                   shutdown, text_writer, last_cmd>>

\* --------------------------------------------------------- specification
\* The program while its window is open.
Next ==
    \/ Advance
    \/ \E pid \in Pids : ClickProcess(pid)
    \/ ClickPause
    \/ ClickStop
    \/ \E s \in Watchers : WatcherStart(s)
    \/ \E s \in Watchers : WatcherCancelled(s)
    \/ \E s \in Watchers : WatcherTick(s)
    \/ \E s \in Watchers : WatcherSample(s)
    \/ \E s \in Watchers : WatcherPublish(s)

Spec == Init /\ [][Next]_vars

\* The program under the runtime's scheduling: a task that was spawned or
\* woken (by its token, or by finishing a synchronous part of the tick body)
\* is polled in the end.  Nothing obliges the user or the clock.
WatcherRuns(s) ==
    \/ WatcherStart(s)
    \/ WatcherCancelled(s)
    \/ WatcherSample(s)
    \/ WatcherPublish(s)

SpecFair == Spec /\ \A s \in Watchers : WF_vars(WatcherRuns(s))

\* The program with its shutdown.
Teardown ==
    \/ AppDrop
    \/ RtBlockOnReturns
    \/ \E s \in Watchers : RuntimeDropTask(s)
    \/ RuntimeDropDone
    \/ MainJoin

NextTeardown == Next \/ Teardown

SpecTeardown == Init /\ [][NextTeardown]_vars

\* The program on a platform whose monotonic clock can step back.
NextSkew == Next \/ ClockRegress

SpecSkew == Init /\ [][NextSkew]_vars

\* ------------------------------------------------------------ properties
\* Steps of task s, told by its program counter.
InTickBody(s) == watcher[s].pc \in {"probe", "publish"}
Accumulates(s) == watcher[s].pc = "probe" /\ watcher'[s].pc = "publish"
Publishes(s) == watcher[s].pc = "publish" /\ watcher'[s].pc = "select"
\* Every action of task s changes its pc or, on a paused tick, its deadline.
OwnStep(s) ==
    \/ watcher'[s].pc # watcher[s].pc
    \/ watcher'[s].deadline # watcher[s].deadline

\* C1: at most one sampler is live: whenever the sampler of a later session
\* is inside a tick, the sampler of every earlier session has terminated.
C1_PreviousRetiredBeforeFirstTick ==
    \A a, b \in Watchers : (a < b /\ InTickBody(b)) => ~Live(a)

\* C2: across a session switch no write of the old session's sampler to the
\* duration text follows a write of the new session's sampler: the session
\* number of the text's last writer never goes down.
C2_NoOldWriteAfterNewWrite == [][text_writer' >= text_writer]_vars

\* C3: the accumulated duration and the anchor of a sampler change only in
\* that sampler's own steps, whatever the sampler of another session does;
\* the duration starts at zero and later changes only when its own tick
\* accumulates.
C3_SessionIsolation ==
    [][\A b \in Watchers :
          /\ (\/ watcher'[b].process_duration # watcher[b].process_duration
              \/ watcher'[b].last_update # watcher[b].last_update)
             => OwnStep(b)
          /\ watcher[b].pc = "spawned" /\ watcher'[b].pc = "select"
             => watcher'[b].process_duration = 0
          /\ (/\ watcher'[b].process_duration # watcher[b].process_duration
              /\ watcher'[b].pc # "done")
             => Accumulates(b)]_vars

\* C3 witness: the sampler of the earlier session, cancelled by the switch,
\* has just accumulated at the current instant, after the sampler of the
\* later session was started and while that one is still live.
C3_LateTickAfterSwitch ==
    \E a, b \in Watchers :
        /\ a < b
        /\ a \in cancelled
        /\ watcher[a].pc = "publish"
        /\ watcher[a].last_update = clock
        /\ watcher[b].pc \in {"select", "probe", "publish"}
        /\ watcher[b].last_update < clock
        /\ watcher[b].process_duration = 0

\* The tick that task s is executing was due at the current instant, so
\* its whole body so far (the read of the paused flag too) ran at this
\* instant: the deadline it left behind is one period ahead of the clock.
PromptTick(s) == watcher[s].deadline = clock + REFRESH_INTERVAL

\* C4: time spent paused contributes nothing: the span from the anchor to
\* now that an accumulation credits never holds time that passed while the
\* paused flag was set.  Stated for the ticks that run on time, which leaves
\* out a tick body that stalls across a pause() after it read the flag.
C4_PausedTimeNotCredited ==
    [][\A s \in Watchers :
          (Accumulates(s) /\ PromptTick(s))
          => watcher[s].last_update >= paused_until]_vars

\* C5: right after resume() (no other command since) an accumulation
\* measures its delta from an anchor that is not earlier than the resume
\* instant.  Stated, as C4, for the ticks that run on time.
C5_AnchorNotBeforeResume ==
    [][\A s \in Watchers :
          (last_cmd.op = "resume" /\ Accumulates(s) /\ PromptTick(s))
          => watcher[s].last_update >= last_cmd.at]_vars

\* C6: while no session is active the duration text is the placeholder.
C6_IdlePlaceholder ==
    tracked_process = None => duration_text = Placeholder

\* C7: when a sampler finds its process gone, something the consumer can
\* read (the text, the paused flag, the tracked pid, the token) changes, so
\* that the end of the session is observable.
C7_EndObservable ==
    [][\A s \in Watchers :
          (watcher[s].pc = "probe" /\ watcher'[s].pc = "done")
          => gui' # gui]_vars

\* C8: shutdown cancels the token the app holds, and main does not return
\* while a sampler is live.
C8_ShutdownWaitsForSamplers ==
    /\ (main_pc # "run_native" /\ cancellation_token # None)
       => cancellation_token \in cancelled
    /\ main_pc = "returned" => LiveWatchers = {}

\* C8 witness: main has returned after a drop that cancelled the token of a
\* session that was still tracked (only Drop cancels without taking).
C8_ReturnedAfterActiveSession ==
    /\ main_pc = "returned"
    /\ cancellation_token # None
    /\ cancellation_token \in cancelled

\* C9: the accumulated duration of a sampler and the seconds it publishes
\* never decrease while it lives, also when the clock steps back.
C9_DurationMonotonic ==
    [][\A s \in Watchers :
          watcher'[s].pc # "done"
          => /\ watcher'[s].process_duration >= watcher[s].process_duration
             /\ watcher'[s].last_seconds >= watcher[s].last_seconds]_vars

\* C9 witness: a sampler has just accumulated at an instant earlier than
\* its anchor (with a clock that never steps back, last_update is at least
\* the accumulated duration).
C9_ClampedTick ==
    \E s \in Watchers :
        /\ watcher[s].pc = "publish"
        /\ watcher[s].last_update < watcher[s].process_duration

\* C10: a click on the pid that is tracked already changes nothing: token,
\* paused flag, tracked pid, text and tasks stay, and nothing is spawned.
C10_ReselectIsNoop ==
    [][\A pid \in Pids :
          (ClickProcess(pid) /\ tracked_process = pid)
          => UNCHANGED <<gui, cancelled, watcher, spawned, text_writer>>]_vars

\* C10 witness: the last command was such a click, on a live session.
C10_ReselectedTracked ==
    /\ last_cmd.op = "select_same"
    /\ tracked_process # None
    /\ cancellation_token # None
    /\ Live(cancellation_token)

\* C11: every session starts unpaused: the step that spawns a sampler leaves
\* the paused flag false, whatever it was, and with no command since, the
\* first tick of that sampler goes on to probe instead of idling as paused.
C11_SessionStartsUnpaused ==
    [][/\ spawned' # spawned => ~paused'
       /\ \A s \in Watchers :
             (/\ last_cmd.op \in {"select", "select_paused"}
              /\ s = cancellation_token
              /\ watcher[s].pc = "select"
              /\ OwnStep(s))
             => watcher'[s].pc = "probe"]_vars

\* C11 witness: the sampler of a session that was selected while the flag
\* was set has taken its first tick, with no command since, and is about
\* to publish what it accumulated.
C11_FirstTickAfterPausedSelect ==
    /\ last_cmd.op = "select_paused"
    /\ cancellation_token # None
    /\ watcher[cancellation_token].pc = "publish"
    /\ ~paused

\* C12: Stop with no session active (no token, no tracked pid) is always
\* possible while the window runs, and changes nothing of the controller:
\* token, tracked pid, paused flag and text stay, no token is cancelled and
\* no task is touched.
C12_IdleStopIsNoop ==
    [][/\ GuiRunning => ENABLED ClickStop
       /\ (/\ cancellation_token = None
           /\ tracked_process = None
           /\ ClickStop)
          => UNCHANGED <<gui, cancelled, watcher, spawned, text_writer>>]_vars

\* C12 witness: a second Stop directly after the Stop that ended a session
\* whose sampler is still live.
C12_StoppedTwice ==
    /\ last_cmd.op = "stop_idle"
    /\ spawned > 0
    /\ \E s \in Watchers : Live(s) /\ s \in cancelled

\* C13: an unpaused tick that finds the process present but not running
\* adds nothing to the accumulated duration and moves the anchor
\* last_update to the instant of that tick, so the time the process was
\* seen not running is not credited by a later tick.
C13_NotRunningReanchors ==
    [][\A s \in Watchers :
         (watcher[s].pc = "probe" /\ watcher'[s].pc = "select")
         => /\ watcher'[s].process_duration = watcher[s].process_duration
            /\ watcher'[s].last_update = clock]_vars

\* C14: the tick on which the probe finds the tracked pid gone ends the
\* sampler there, with the published text as it was, and from then on the
\* sampler takes no step at all: no tick, no accumulation, no publish,
\* whatever later probes of that pid would report.
C14_AbsenceTerminates ==
    [][\A s \in Watchers :
         /\ (watcher'[s].process_gone /\ ~watcher[s].process_gone)
            => /\ watcher[s].pc = "probe"
               /\ watcher'[s].pc = "done"
               /\ UNCHANGED <<duration_text, text_writer>>
         /\ watcher[s].process_gone
            => /\ watcher'[s] = watcher[s]
               /\ text_writer' = s => text_writer = s]_vars

\* C14 witness: a sampler that had accumulated and published has ended on
\* an absent probe, uncancelled, with its text still displayed.
C14_EndedByAbsence ==
    \E s \in Watchers :
        /\ watcher[s].process_gone
        /\ watcher[s].pc = "done"
        /\ s \notin cancelled
        /\ text_writer = s
        /\ clock > 0

\* C15: cancellation has priority over the timer: a sampler at its wait
\* point whose token is cancelled can only terminate; it never takes the
\* tick, so it probes, accumulates and publishes nothing, ready tick or not.
C15_CancelBeatsTick ==
    [][\A s \in Watchers :
         (/\ watcher[s].pc = "select"
          /\ s \in cancelled
          /\ OwnStep(s))
         => /\ watcher'[s].pc = "done"
            /\ UNCHANGED <<duration_text, text_writer>>]_vars

\* C15 witness: a sampler that has published waits with its token cancelled
\* and a tick due at the same moment.
C15_CancelledWithTickDue ==
    \E s \in Watchers :
        /\ watcher[s].pc = "select"
        /\ s \in cancelled
        /\ clock >= watcher[s].deadline
        /\ text_writer = s

\* C16: a cancelled token stays cancelled; once its token is cancelled a
\* sampler finishes at most the tick body it is in and begins no other (it
\* leaves the wait point only by terminating, paused or not); and under
\* fair scheduling every sampler whose token is cancelled terminates.
C16_CancelObservedWithinOneTick ==
    /\ [][/\ cancelled \subseteq cancelled'
          /\ \A s \in Watchers :
                (s \in cancelled /\ watcher[s].pc = "select")
                => \/ ~OwnStep(s)
                   \/ watcher'[s].pc = "done"]_vars
    /\ <>[](\A s \in cancelled : watcher[s].pc = "done")

\* C16 witness: a sampler cancelled while the flag was set and it was inside
\* a tick body has come back to its wait point, where it can only end.
C16_CancelledInsideTickBody ==
    \E s \in Watchers :
        /\ s \in cancelled
        /\ watcher[s].pc = "select"
        /\ text_writer = s
        /\ paused

\* C17: no sampling while paused: a tick taken while the flag is set does
\* not probe; it leaves the sampler at its wait point, live, with the same
\* accumulated duration, the anchor moved to the instant of the tick, and
\* the published text untouched.  So a sampler cannot end on a vanished
\* process while the flag is set: it can end there only by cancellation.
C17_NoSamplingWhilePaused ==
    [][\A s \in Watchers :
         (/\ paused
          /\ watcher[s].pc = "select"
          /\ s \notin cancelled
          /\ OwnStep(s))
         => /\ watcher'[s] =
                  [watcher[s] EXCEPT !.last_update = clock,
                                     !.deadline = @ + REFRESH_INTERVAL,
                                     !.paused_tick = {clock}]
            /\ UNCHANGED <<duration_text, text_writer>>]_vars

\* C17 witness: a sampler that holds accumulated time has just taken a tick
\* with the flag set: its anchor is the present instant, later than the
\* start of the session.
C17_TickedWhilePaused ==
    \E s \in Watchers :
        /\ paused
        /\ s \notin cancelled
        /\ watcher[s].pc = "select"
        /\ watcher[s].process_duration > 0
        /\ watcher[s].last_update = clock
        /\ paused_until = clock
        /\ watcher[s].deadline > clock

\* C18: after any commands the controller holds a token exactly when a pid
\* is tracked, and of all the tokens handed to samplers so far the only one
\* not cancelled is the one the controller holds.
C18_OneUncancelledToken ==
    /\ cancellation_token # None <=> tracked_process # None
    /\ \A s \in 1..spawned : s \notin cancelled <=> s = cancellation_token

\* C18 witness: after a switch from one session to the next, both samplers
\* are live, the first with its token cancelled, the second with the token
\* the controller holds.
C18_SwitchedWithBothLive ==
    /\ spawned = 2
    /\ tracked_process # None
    /\ cancellation_token = 2
    /\ Live(1)
    /\ Live(2)
    /\ InTickBody(1)

\* The time an accumulation of task s credits that was spent paused, when
\* the task's anchor comes from a paused tick at instant t of the pause
\* that ended last: the span from t to the end of that pause.
PausedCredit(t) == IF paused_until > t THEN paused_until - t ELSE 0

\* C19: whatever the length of a pause that the sampler saw on a tick, the
\* accumulation after resume() credits less than one tick interval of
\* paused time.  Checked with "at most one interval", which the grid of
\* instants can tell from "more than one".
C19_PausedCreditBelowOneInterval ==
    [][\A s \in Watchers : \A t \in watcher[s].paused_tick :
          Accumulates(s) => PausedCredit(t) <= REFRESH_INTERVAL]_vars

\* C20: a sampler that ends because its process is gone leaves the tracked
\* pid and the token with the controller; a click on that same pid then
\* spawns nothing and leaves text and tasks as they are; a sampler is
\* spawned only by a click that changes the tracked pid, that is, after
\* Stop or on another pid.
C20_EndedSessionStaysTracked ==
    [][/\ \A s \in Watchers :
             (watcher'[s].process_gone /\ ~watcher[s].process_gone)
             => UNCHANGED <<tracked_process, cancellation_token>>
       /\ \A pid \in Pids :
             (/\ tracked_process = pid
              /\ watcher[cancellation_token].process_gone
              /\ ClickProcess(pid))
             => UNCHANGED <<gui, cancelled, watcher, spawned, text_writer>>
       /\ spawned' # spawned => tracked_process' # tracked_process]_vars

\* C20 witness: the pid of a session whose sampler had published and then
\* ended on an absent probe was clicked again; the token is still held.
C20_ReselectedEndedSession ==
    /\ last_cmd.op = "select_ended"
    /\ tracked_process # None
    /\ cancellation_token # None
    /\ watcher[cancellation_token].process_gone
    /\ watcher[cancellation_token].pc = "done"
    /\ text_writer = cancellation_token

====
